---- MODULE Spec2Model ----
(***************************************************************************)
(* valfile: run() of main.go as a state machine.                           *)
(*                                                                         *)
(* Text (file names, command output, archive entry names, paths) is a      *)
(* sequence of one-character strings.  An error is the sequence of the     *)
(* pieces of its message.  A type expression of go/ast is a record whose   *)
(* field k names the node kind.                                            *)
(***************************************************************************)
EXTENDS Integers, Sequences, FiniteSets, TLC

VARIABLES
    pc,               \* position of run: the statement it executes next
    world,            \* what run is called on: arguments, package, input file
    p,                \* Params, the result of parseCLIParameters
    inputType,        \* InputType chosen by getFileFormat
    pkg,              \* the parsed package
    typeDefinitions,  \* rendered declarations, in order of discovery
    typeSpecs,        \* the map of run: the declarations found so far, by name
    errs,             \* the named result of run
    stack,            \* call stack of traverseTypeIdents
    source,           \* the synthesized program
    expectMarshalingTag,
    fs,               \* paths that exist in the file system
    tempDir,          \* the workspace of this invocation
    zip,              \* state of unzipArchive
    output,           \* combined output of `go run .`
    log,              \* what run has done so far (observation only)
    prog,             \* the synthesized program at work: its input and its state
    other             \* the locals of a second invocation of run while it is not running

vars == << pc, world, p, inputType, pkg, typeDefinitions, typeSpecs, errs,
           stack, source, expectMarshalingTag, fs, tempDir, zip, output, log, prog,
           other >>

-----------------------------------------------------------------------------
(* Bounds of the model *)

\* traverseTypeIdents frames the goroutine stack holds before the Go runtime
\* ends the process with "stack overflow"
MaxStack == 8
\* fields of the root struct
MaxFields == 2
\* entries of an archive
MaxEntries == 2
\* characters a program prints after an optional marker
MaxOut == 2

-----------------------------------------------------------------------------
(* strings and bytes *)

HasPrefix(s, prefix) ==
    /\ Len(prefix) <= Len(s)
    /\ SubSeq(s, 1, Len(prefix)) = prefix

HasSuffix(s, suffix) ==
    /\ Len(suffix) <= Len(s)
    /\ SubSeq(s, Len(s) - Len(suffix) + 1, Len(s)) = suffix

RECURSIVE TrimRight(_, _)
TrimRight(s, c) ==
    IF s # <<>> /\ s[Len(s)] = c THEN TrimRight(SubSeq(s, 1, Len(s) - 1), c) ELSE s

RECURSIVE LastIndex(_, _)
\* position of the last c in s, 0 when there is none
LastIndex(s, c) ==
    IF s = <<>> THEN 0
    ELSE IF s[Len(s)] = c THEN Len(s)
    ELSE LastIndex(SubSeq(s, 1, Len(s) - 1), c)

UpperToLower ==
    [c \in {"J", "S", "O", "N", "T", "M", "L", "Y", "A", "H", "C", "E", "V"} |->
        CASE c = "J" -> "j" [] c = "S" -> "s" [] c = "O" -> "o" [] c = "N" -> "n"
          [] c = "T" -> "t" [] c = "M" -> "m" [] c = "L" -> "l" [] c = "Y" -> "y"
          [] c = "A" -> "a" [] c = "H" -> "h" [] c = "C" -> "c" [] c = "E" -> "e"
          [] c = "V" -> "v"]

ToLower(s) ==
    [i \in 1..Len(s) |-> IF s[i] \in DOMAIN UpperToLower THEN UpperToLower[s[i]] ELSE s[i]]

-----------------------------------------------------------------------------
(* path/filepath, with "/" as os.PathSeparator *)

Sep == "/"

RECURSIVE Split(_)
\* the elements of a path between its separators (empty elements included)
Split(s) ==
    LET i == LastIndex(s, Sep) IN
    IF i = 0 THEN <<s>>
    ELSE Append(Split(SubSeq(s, 1, i - 1)), SubSeq(s, i + 1, Len(s)))

RECURSIVE JoinElems(_)
JoinElems(elems) ==
    IF elems = <<>> THEN <<>>
    ELSE IF Len(elems) = 1 THEN elems[1]
    ELSE JoinElems(SubSeq(elems, 1, Len(elems) - 1)) \o <<Sep>> \o elems[Len(elems)]

DotDot == <<".", ".">>
Dot == <<".">>

RECURSIVE CleanElems(_, _, _)
\* the elements Clean keeps: "" and "." are dropped, ".." removes the element
\* before it, is dropped at the root and is kept at the front of a relative path
CleanElems(elems, out, rooted) ==
    IF elems = <<>> THEN out
    ELSE LET e == Head(elems)
             rest == Tail(elems) IN
         IF e = <<>> \/ e = Dot THEN CleanElems(rest, out, rooted)
         ELSE IF e = DotDot THEN
             IF out # <<>> /\ out[Len(out)] # DotDot
             THEN CleanElems(rest, SubSeq(out, 1, Len(out) - 1), rooted)
             ELSE IF rooted THEN CleanElems(rest, out, rooted)
             ELSE CleanElems(rest, Append(out, e), rooted)
         ELSE CleanElems(rest, Append(out, e), rooted)

Clean(path) ==
    LET rooted == path # <<>> /\ path[1] = Sep
        kept == JoinElems(CleanElems(Split(path), <<>>, rooted)) IN
    IF rooted THEN <<Sep>> \o kept
    ELSE IF kept = <<>> THEN Dot
    ELSE kept

\* filepath.Join of two elements
Join(a, b) ==
    IF a = <<>> /\ b = <<>> THEN <<>>
    ELSE IF a = <<>> THEN Clean(b)
    ELSE IF b = <<>> THEN Clean(a)
    ELSE Clean(a \o <<Sep>> \o b)

Dir(path) == Clean(SubSeq(path, 1, LastIndex(path, Sep)))

Base(path) ==
    IF path = <<>> THEN Dot
    ELSE LET t == TrimRight(path, Sep) IN
         IF t = <<>> THEN <<Sep>>
         ELSE SubSeq(t, LastIndex(t, Sep) + 1, Len(t))

Ext(path) ==
    LET d == LastIndex(path, ".") IN
    IF d > LastIndex(path, Sep) THEN SubSeq(path, d, Len(path)) ELSE <<>>

-----------------------------------------------------------------------------
(* go/ast: type expressions, fields, tags, packages *)

Ident(name) == [k |-> "ident", Name |-> name]
ArrayType(elt) == [k |-> "array", Elt |-> elt]
MapType(key, value) == [k |-> "map", Key |-> key, Value |-> value]
StarExpr(x) == [k |-> "star", X |-> x]
ChanType(value) == [k |-> "chan", Value |-> value]
StructType(fields) == [k |-> "struct", Fields |-> fields]

\* A field tag: absent (f.Tag == nil), or a literal whose content is a list
\* of key:"name" pairs, or a literal that structtag.Parse rejects.
NoTag == [lit |-> FALSE, wellFormed |-> TRUE, pairs |-> <<>>]
TagOf(pairs) == [lit |-> TRUE, wellFormed |-> TRUE, pairs |-> pairs]
Malformed == [lit |-> TRUE, wellFormed |-> FALSE, pairs |-> <<>>]

TagKeys == <<"env", "toml", "json", "yaml", "hcl">>
\* `env:"foo" toml:"foo" json:"foo" yaml:"foo" hcl:"foo"`
AllKeys == TagOf([i \in 1..Len(TagKeys) |-> <<TagKeys[i], "foo">>])
\* `env:"" toml:"" json:"" yaml:"" hcl:""`
EmptyNames == TagOf([i \in 1..Len(TagKeys) |-> <<TagKeys[i], "">>])
\* `json:"foo"`
JsonOnly == TagOf(<< <<"json", "foo">> >>)

Field(names, type, tag) == [Names |-> names, Type |-> type, Tag |-> tag]

\* the *ast.TypeSpec nil
Nil == [Name |-> "", Type |-> [k |-> "nil"]]
TypeSpec(name, type) == [Name |-> name, Type |-> type]

\* An object of the package scope: its kind and, for a type, its declaration.
TypObj(type) == [Kind |-> "typ", Type |-> type]
VarObj == [Kind |-> "var", Type |-> [k |-> "nil"]]

RootName == "Config"
SubName == "Sub"

\* field names by position in the struct: the i-th field declares the first
\* n of its row
NamePool == << <<"Foo", "Bar">>, <<"Baz", "Qux">>, <<"Quux", "Corge">>, <<"Grault", "Garply">> >>
FieldNames(i, n) == SubSeq(NamePool[i], 1, n)

\* Field lists of 1..n fields, the i-th taken from shapes: a shape is
\* <<number of names, type, tag>>.
RECURSIVE FieldLists(_, _)
FieldLists(shapes, n) ==
    IF n = 0 THEN {<<>>}
    ELSE LET shorter == FieldLists(shapes, n - 1) IN
         shorter \cup
         {Append(fl, Field(FieldNames(n, sh[1]), sh[2], sh[3])) :
              fl \in {x \in shorter : Len(x) = n - 1}, sh \in shapes}

NonEmpty(lists) == {l \in lists : l # <<>>}

\* One package of scope objects: name -> object.
Package(root, sub) ==
    [Name |-> "main",
     Files |-> {[n \in {RootName, SubName, "version"} |->
                    IF n = RootName THEN TypObj(root)
                    ELSE IF n = SubName THEN TypObj(sub)
                    ELSE VarObj]}]

PackageOf(root) ==
    [Name |-> "main",
     Files |-> {[n \in {RootName, "version"} |->
                    IF n = RootName THEN TypObj(root) ELSE VarObj]}]

\* Type graphs: Config with 1..MaxFields fields and Sub, referring to each
\* other, to themselves, to the undeclared Unknown and to the variable version.
GraphRootShapes ==
    {<<1, t, AllKeys>> :
        t \in {Ident("string"), Ident(SubName), Ident("Unknown"),
               ArrayType(Ident(RootName)), MapType(Ident("string"), Ident(SubName)),
               StarExpr(Ident(SubName))}}
    \cup {<<2, t, NoTag>> : t \in {Ident("string"), Ident(SubName)}}

GraphSubTypes ==
    {StructType(<<Field(<<"Val">>, t, AllKeys)>>) :
        t \in {Ident("string"), Ident(RootName), Ident("Unknown"),
               ArrayType(Ident(SubName)), MapType(Ident(RootName), Ident("string")),
               ChanType(Ident("Unknown"))}}
    \cup {StructType(<<Field(<<"Val", "Alt">>, Ident("string"), NoTag)>>),
          StructType(<<Field(<<"Val">>, Ident("version"), AllKeys)>>),
          ArrayType(Ident("string")),
          MapType(Ident(SubName), Ident("string"))}

GraphPackages ==
    {Package(StructType(fl), sub) :
        fl \in NonEmpty(FieldLists(GraphRootShapes, MaxFields)), sub \in GraphSubTypes}

\* Tags: Config with 1..MaxFields string fields of every tag and name shape.
TagShapes ==
    {<<1, Ident("string"), tag>> : tag \in {NoTag, AllKeys, JsonOnly, EmptyNames, Malformed}}
    \cup {<<n, Ident("string"), NoTag>> : n \in {0, 2}}
    \cup {<<2, Ident("string"), AllKeys>>}

TagPackages ==
    {PackageOf(StructType(fl)) : fl \in NonEmpty(FieldLists(TagShapes, MaxFields))}

\* The packages of main_test.go: one field Foo, tagged or not, and a root
\* that is no struct.
TestPackages ==
    {PackageOf(StructType(<<Field(<<"Foo">>, Ident("string"), tag)>>)) :
        tag \in {NoTag, AllKeys}}
    \cup {PackageOf(ArrayType(Ident("string")))}

-----------------------------------------------------------------------------
(* what run is called on *)

FileTOML == <<"c", ".", "t", "o", "m", "l">>
FileJSON == <<"c", ".", "j", "s", "o", "n">>
FileJSONUpper == <<"c", ".", "J", "S", "O", "N">>
FileJSONNET == <<"c", ".", "j", "s", "o", "n", "n", "e", "t">>
FileYAML == <<"c", ".", "y", "a", "m", "l">>
FileYML == <<"d", "/", "c", ".", "y", "m", "l">>
FileHCL == <<"c", ".", "h", "c", "l">>
FileDotenv == <<".", "e", "n", "v">>
FileDotenvLocal == <<"d", "/", ".", "e", "n", "v", ".", "l">>
FileDotenvJSON == <<".", "e", "n", "v", ".", "j", "s", "o", "n">>
FileDotenvDot == <<".", "e", "n", "v", ".">>
FileText == <<"c", ".", "t", "x", "t">>
FileNoExt == <<"d", ".", "t", "o", "m", "l", "/", "c">>

\* the last one: `.env.` and a suffix of two lines
InputFiles ==
    {FileTOML, FileJSON, FileJSONUpper, FileJSONNET, FileYAML, FileYML, FileHCL,
     FileDotenv, FileDotenvLocal, FileDotenvJSON, FileDotenvDot, FileText, FileNoExt,
     <<".", "e", "n", "v", ".", "a", "\n", "b">>}

\* The flag values after flag.Parse, and whether flag.Parse accepted the
\* command line.
Args(dir, type, file, env, noTagCheck, flagsOK) ==
    [PackageDir |-> dir, TypeName |-> type, InputFile |-> file, InputEnv |-> env,
     NoTagCheck |-> noTagCheck, flagsOK |-> flagsOK]

\* dir: what parser.ParseDir finds in the package directory;
\* input: the state of the input file; env: the environment of the process.
World(args, dir, package, input, env) ==
    [args |-> args, dir |-> dir, pkg |-> package, input |-> input, env |-> env]

TestPackage == PackageOf(StructType(<<Field(<<"Foo">>, Ident("string"), AllKeys)>>))

\* every command line, on a package that passes
ParamWorlds ==
    {World(Args(d, t, f, e, n, ok), "ok", TestPackage, "ok", "ok") :
        d \in {".", ""}, t \in {RootName, "", "Missing", "version"},
        f \in InputFiles \cup {<<>>}, e \in BOOLEAN, n \in BOOLEAN, ok \in BOOLEAN}

\* every input type and input state, on the packages of the tests
InputWorlds ==
    {World(Args(".", RootName, f, FALSE, n, TRUE), "ok", pk, i, "ok") :
        f \in InputFiles, n \in BOOLEAN, pk \in TestPackages,
        i \in {"ok", "missing", "malformed"}}
    \cup
    {World(Args(".", RootName, <<>>, TRUE, n, TRUE), "ok", pk, "ok", e) :
        n \in BOOLEAN, pk \in TestPackages, e \in {"ok", "noEquals"}}

\* every state of the package directory
DirWorlds ==
    {World(Args(".", RootName, FileJSON, FALSE, FALSE, TRUE), d, TestPackage, "ok", "ok") :
        d \in {"parseError", "twoPackages", "noPackage"}}

UntaggedSub == StructType(<<Field(<<"Val", "Alt">>, Ident("string"), NoTag)>>)

\* every type graph with the tag check, and those with an untagged Sub
\* without it
GraphWorlds ==
    {World(Args(".", RootName, FileJSON, FALSE, FALSE, TRUE), "ok", pk, "ok", "ok") :
        pk \in GraphPackages}
    \cup
    {World(Args(".", RootName, FileJSON, FALSE, TRUE, TRUE), "ok", pk, "ok", "ok") :
        pk \in {Package(StructType(fl), UntaggedSub) :
                    fl \in NonEmpty(FieldLists(GraphRootShapes, MaxFields))}}

TagWorlds ==
    {World(Args(".", RootName, a[1], FALSE, a[2], TRUE), "ok", pk, "ok", "ok") :
        pk \in TagPackages,
        a \in {<<FileJSON, FALSE>>, <<FileTOML, FALSE>>, <<FileJSON, TRUE>>}}

\* A package of two files that both declare Sub, as files under different
\* build constraints do; parser.ParseDir parses every file of the directory.
SplitPackage(t) ==
    LET tagged(type) == StructType(<<Field(<<"Val">>, type, AllKeys)>>) IN
    [Name |-> "main",
     Files |-> {[n \in {RootName, SubName} |->
                    IF n = RootName THEN TypObj(StructType(<<Field(<<"Foo">>, t, AllKeys)>>))
                    ELSE TypObj(tagged(Ident("string")))],
                [n \in {SubName, "Other"} |->
                    IF n = SubName THEN TypObj(tagged(Ident("Other")))
                    ELSE TypObj(tagged(Ident("string")))]}]

SplitWorlds ==
    {World(Args(".", RootName, FileJSON, FALSE, FALSE, TRUE), "ok", SplitPackage(t),
           "ok", "ok") :
        t \in {Ident(SubName), ArrayType(Ident(SubName)),
               MapType(Ident(SubName), Ident("Other"))}}

\* Type graphs with identifiers that resolve to nothing in several places:
\* two fields of one struct, the key and the value of a map, behind a
\* declared type, and beside a cycle.
UndefWorlds ==
    LET UndefRoots ==
            {<<Ident("Unknown"), Ident("version")>>,
             <<MapType(Ident("Unknown"), Ident("version")), Ident("string")>>,
             <<Ident("Unknown"), Ident(SubName)>>,
             <<Ident(SubName), Ident("string")>>,
             <<Ident(SubName), Ident(SubName)>>,
             <<Ident(SubName), ArrayType(Ident(RootName))>>}
        UndefSubs ==
            {StructType(<<Field(<<"Val">>, Ident("Unknown"), AllKeys),
                          Field(<<"Alt">>, Ident("version"), AllKeys)>>),
             StructType(<<Field(<<"Val">>, Ident("string"), AllKeys),
                          Field(<<"Alt">>, ArrayType(Ident("Missing")), AllKeys)>>)}
    IN
    {World(Args(".", RootName, FileJSON, FALSE, FALSE, TRUE), "ok",
           Package(StructType(<<Field(<<"Foo">>, r[1], AllKeys),
                                Field(<<"Bar">>, r[2], AllKeys)>>), sub),
           "ok", "ok") :
        r \in UndefRoots, sub \in UndefSubs}

Worlds ==
    ParamWorlds \cup InputWorlds \cup DirWorlds \cup GraphWorlds \cup TagWorlds
    \cup SplitWorlds \cup UndefWorlds

-----------------------------------------------------------------------------
(* the functions of main.go *)

NoParams ==
    [PackageDir |-> "", TypeName |-> "", InputFile |-> <<>>, InputEnv |-> FALSE,
     NoTagCheck |-> FALSE]

\* parseCLIParameters that accepts -env together with -f
parseCLIParametersBoth(args) ==
    LET params == [PackageDir |-> args.PackageDir, TypeName |-> args.TypeName,
                   InputFile |-> args.InputFile, InputEnv |-> args.InputEnv,
                   NoTagCheck |-> args.NoTagCheck] IN
    IF ~args.flagsOK THEN <<NoParams, <<"flag provided but not defined">> >>
    ELSE IF params.PackageDir = "" THEN <<NoParams, <<"missing package directory">> >>
    ELSE IF params.TypeName = "" THEN <<NoParams, <<"missing type name">> >>
    ELSE IF ~params.InputEnv /\ params.InputFile = <<>>
        THEN <<NoParams, <<"missing input file">> >>
    ELSE <<params, <<>> >>

\* parseCLIParameters: <<Params, error>>, the error <<>> when there is none
parseCLIParameters(args) ==
    LET params == [PackageDir |-> args.PackageDir, TypeName |-> args.TypeName,
                   InputFile |-> args.InputFile, InputEnv |-> args.InputEnv,
                   NoTagCheck |-> args.NoTagCheck] IN
    IF ~args.flagsOK THEN <<NoParams, <<"flag provided but not defined">> >>
    ELSE IF params.PackageDir = "" THEN <<NoParams, <<"missing package directory">> >>
    ELSE IF params.TypeName = "" THEN <<NoParams, <<"missing type name">> >>
    ELSE IF ~params.InputEnv /\ params.InputFile = <<>>
        THEN <<NoParams, <<"missing input file">> >>
    ELSE IF params.InputEnv /\ params.InputFile # <<>>
        THEN <<NoParams, <<"conflicting parameters, -env and -f are mutually exlusive. Please use either the -env option or the -f option, but not both.">> >>
    ELSE <<params, <<>> >>

InputTypeTOML == 1
InputTypeJSON == 2
InputTypeJSONNET == 3
InputTypeYAML == 4
InputTypeENV == 5
InputTypeDOTENV == 6
InputTypeHCL == 7

DotEnvText == <<".", "e", "n", "v">>

\* regexEnvFile with a dot that matches the line feed too
regexEnvFileAnyChar(name) ==
    \/ name = DotEnvText
    \/ /\ HasPrefix(name, DotEnvText \o <<".">>)
       /\ Len(name) > Len(DotEnvText) + 1

\* regexEnvFile: ^\.env(\..+)?$
regexEnvFile(name) ==
    \/ name = DotEnvText
    \/ /\ HasPrefix(name, DotEnvText \o <<".">>)
       /\ Len(name) > Len(DotEnvText) + 1
       /\ \A i \in 1..Len(name) : name[i] # "\n"

\* getFileFormat: <<InputType, error>>
getFileFormat(filePath) ==
    LET extension == ToLower(Ext(filePath))
        fileName == Base(filePath) IN
    IF extension = <<".", "t", "o", "m", "l">> THEN <<InputTypeTOML, <<>> >>
    ELSE IF extension = <<".", "j", "s", "o", "n">> THEN <<InputTypeJSON, <<>> >>
    ELSE IF extension = <<".", "j", "s", "o", "n", "n", "e", "t">>
        THEN <<InputTypeJSONNET, <<>> >>
    ELSE IF extension \in {<<".", "y", "a", "m", "l">>, <<".", "y", "m", "l">>}
        THEN <<InputTypeYAML, <<>> >>
    ELSE IF extension = <<".", "h", "c", "l">> THEN <<InputTypeHCL, <<>> >>
    ELSE IF regexEnvFile(fileName) THEN <<InputTypeDOTENV, <<>> >>
    ELSE <<0, <<"unsupported file type: ">> \o fileName>>

\* findType without the test of the kind of the object
findTypeAnyKind(package, typeName) ==
    LET found == {TypeSpec(typeName, f[typeName].Type) :
                     f \in {g \in package.Files : typeName \in DOMAIN g}}
    IN IF found = {} THEN {Nil} ELSE found

\* findType: what it can return, the declaration of a type object named
\* typeName or Nil.  It returns the first match of its loops over the maps
\* pkg.Files and file.Scope.Objects, whose order Go leaves unspecified: of
\* several files that declare the name, any can be the one it finds.
findType(package, typeName) ==
    LET found == {TypeSpec(typeName, f[typeName].Type) :
                     f \in {g \in package.Files :
                                /\ typeName \in DOMAIN g
                                /\ g[typeName].Kind = "typ"}}
    IN IF found = {} THEN {Nil} ELSE found

isTypePrimitive(typeName) ==
    typeName \in {"string", "bool", "byte", "rune", "uintptr",
                  "int", "int8", "int16", "int32", "int64",
                  "uint", "uint8", "uint16", "uint32", "uint64",
                  "float32", "float64", "complex64", "complex128"}

\* renderGoType: the text of a declaration is its name followed by the text
\* of its type (format.Node does not fail on a parsed tree)
renderGoType(t) == <<t.Name, t.Type>>

fieldName(f) ==
    IF Len(f.Names) > 0 THEN f.Names[1]
    ELSE IF f.Type.k = "ident" THEN f.Type.Name
    ELSE ""

\* addErrf: "%s.%s: %s"
tagErr(t, f, msg) == <<t.Name, ".", fieldName(f), ": ">> \o msg

quote(key) == <<"\"", key, "\"">>

\* tags.Get: does the tag list hold the key, and under which name
hasKey(tag, key) == \E i \in 1..Len(tag.pairs) : tag.pairs[i][1] = key
nameOf(tag, key) ==
    LET i == CHOOSE j \in 1..Len(tag.pairs) :
                 /\ tag.pairs[j][1] = key
                 /\ \A h \in 1..(j - 1) : tag.pairs[h][1] # key
    IN tag.pairs[i][2]

\* one iteration of the loop of checkMarshalingTags: the errors it adds.
\* (strconv.Unquote does not fail on the tag literal of a parsed file.)
checkField(t, f, expectTag) ==
    IF ~f.Tag.lit THEN << tagErr(t, f, <<"missing tag ">> \o quote(expectTag)) >>
    ELSE IF ~f.Tag.wellFormed
        THEN << tagErr(t, f, <<"parsing struct tags: ", "bad syntax for struct tag pair">>) >>
    ELSE IF ~hasKey(f.Tag, expectTag)
        THEN << tagErr(t, f, <<"missing tag ">> \o quote(expectTag)) >>
    ELSE IF nameOf(f.Tag, expectTag) = ""
        THEN << tagErr(t, f, <<"tag ">> \o quote(expectTag) \o <<" is empty">>) >>
    ELSE <<>>

RECURSIVE checkFields(_, _, _)
checkFields(t, fields, expectTag) ==
    IF fields = <<>> THEN <<>>
    ELSE checkField(t, Head(fields), expectTag) \o checkFields(t, Tail(fields), expectTag)

checkMarshalingTags(t, expectTag) ==
    IF t.Type.k # "struct" THEN <<>>
    ELSE checkFields(t, t.Type.Fields, expectTag)

\* sortedKeys: the keys of the map in the order of one iteration over it,
\* which Go leaves unspecified: every order is a possible result
sortedKeys(m) ==
    LET keys == {t.Name : t \in m} IN
    {s \in [1..Cardinality(keys) -> keys] :
        \A i, j \in 1..Cardinality(keys) : i # j => s[i] # s[j]}

RECURSIVE checkAll(_, _, _)
\* the loop of run over the keys: the errors of each type, appended
checkAll(specs, keys, expectTag) ==
    IF keys = <<>> THEN <<>>
    ELSE checkMarshalingTags(CHOOSE t \in specs : t.Name = Head(keys), expectTag)
         \o checkAll(specs, Tail(keys), expectTag)

\* visit without the test for a type that is already in typeSpecs
visitAgain(specs, defs, es, name, t) ==
    LET same == [stop |-> FALSE, typeSpecs |-> specs, typeDefinitions |-> defs, errs |-> es]
    IN
    IF isTypePrimitive(name) THEN same
    ELSE IF t = Nil
        THEN [same EXCEPT !.stop = TRUE, !.errs = Append(es, <<"undefined type: ", name>>)]
    ELSE [same EXCEPT !.typeSpecs = specs \cup {t},
                      !.typeDefinitions = Append(defs, renderGoType(t))]

\* the callback run passes to traverseTypeIdents, t being what its call of
\* findType returns: stop, and the new values of the variables of run it
\* captures
visit(specs, defs, es, name, t) ==
    LET same == [stop |-> FALSE, typeSpecs |-> specs, typeDefinitions |-> defs, errs |-> es]
    IN
    IF isTypePrimitive(name) THEN same
    ELSE IF t = Nil
        THEN [same EXCEPT !.stop = TRUE, !.errs = Append(es, <<"undefined type: ", name>>)]
    ELSE IF \E s \in specs : s.Name = t.Name THEN same
    ELSE [same EXCEPT !.typeSpecs = specs \cup {t},
                      !.typeDefinitions = Append(defs, renderGoType(t))]

\* tagOfInputType with the key of Jsonnet taken from the name of the format
tagOfInputTypeByName(it) ==
    CASE it = InputTypeENV -> "env"
      [] it = InputTypeDOTENV -> "env"
      [] it = InputTypeTOML -> "toml"
      [] it = InputTypeJSON -> "json"
      [] it = InputTypeYAML -> "yaml"
      [] it = InputTypeJSONNET -> "jsonnet"
      [] it = InputTypeHCL -> "hcl"
      [] OTHER -> ""

\* the tag key of an input type
tagOfInputType(it) ==
    CASE it = InputTypeENV -> "env"
      [] it = InputTypeDOTENV -> "env"
      [] it = InputTypeTOML -> "toml"
      [] it = InputTypeJSON -> "json"
      [] it = InputTypeYAML -> "yaml"
      [] it = InputTypeJSONNET -> "json"
      [] it = InputTypeHCL -> "hcl"
      [] OTHER -> ""

\* the template of an input type
templateOfInputType(it) ==
    CASE it = InputTypeENV -> "main_env"
      [] it = InputTypeDOTENV -> "main_env"
      [] it = InputTypeTOML -> "main_toml"
      [] it = InputTypeJSON -> "main_json"
      [] it = InputTypeYAML -> "main_yaml"
      [] it = InputTypeJSONNET -> "main_json"
      [] it = InputTypeHCL -> "main_hcl"
      [] OTHER -> ""

StdoutErrPrefix == <<"V", "A", "L", "F", "I", "L", "E", ":", " ">>

\* mustRenderSrc and mustRenderSrcEnv: the template and what fills it
mustRenderSrc(defs, rootTypeName, input, fileName, tmpl) ==
    [tmpl |-> tmpl, TypeDefinitions |-> defs, RootTypeName |-> rootTypeName,
     Input |-> input, InputFileName |-> fileName, StdoutErrPrefix |-> StdoutErrPrefix]

\* A path of the file system: a directory or a regular file.
DirAt(path) == [path |-> path, dir |-> TRUE]
FileAt(path) == [path |-> path, dir |-> FALSE]

\* os.RemoveAll
RemoveAll(files, dir) ==
    {q \in files : q.path # dir /\ ~HasPrefix(q.path, dir \o <<Sep>>)}

NoDir == <<>>

\* deferred without the deferred call
deferredNothing(files, dir) == files

\* defer os.RemoveAll(tempDir), registered once the workspace exists
deferred(files, dir) == IF dir # NoDir THEN RemoveAll(files, dir) ELSE files

-----------------------------------------------------------------------------
(* run *)

TmpRoot == <<"/", "t">>
NoPackage == [Name |-> "", Files |-> {}]
NoSource == [tmpl |-> ""]
NoZip == [archive |-> <<>>, dst |-> NoDir, i |-> 0, err |-> <<>>]
NoProg == [tmpl |-> "", payload |-> <<>>, rules |-> "", input |-> <<>>, value |-> {},
           validated |-> FALSE, exit |-> 0]
NoLog ==
    [inputRead |-> FALSE, synthesized |-> FALSE, tagCalls |-> 0, executed |-> FALSE,
     status |-> ""]

\* a second invocation of run that has not started
NoOther ==
    [pc |-> "start", p |-> NoParams, inputType |-> 0, pkg |-> NoPackage,
     typeDefinitions |-> <<>>, typeSpecs |-> {}, errs |-> <<>>, stack |-> <<>>,
     source |-> NoSource, expectMarshalingTag |-> "", tempDir |-> NoDir, zip |-> NoZip,
     output |-> <<>>, log |-> NoLog]

Init ==
    /\ pc = "start"
    /\ world \in Worlds
    /\ p = NoParams
    /\ inputType = 0
    /\ pkg = NoPackage
    /\ typeDefinitions = <<>>
    /\ typeSpecs = {}
    /\ errs = <<>>
    /\ stack = <<>>
    /\ source = NoSource
    /\ expectMarshalingTag = ""
    /\ fs = {DirAt(TmpRoot)}
    /\ tempDir = NoDir
    /\ zip = NoZip
    /\ output = <<>>
    /\ log = NoLog
    /\ prog = NoProg
    /\ other = NoOther

\* return e, after the deferred call
Return(e) ==
    /\ pc' = "returned"
    /\ errs' = e
    /\ fs' = deferred(fs, tempDir)

\* main.go:450-453
RunParseCLI ==
    /\ pc = "start"
    /\ LET r == parseCLIParameters(world.args) IN
       IF r[2] # <<>>
       THEN Return(<<r[2]>>) /\ UNCHANGED p
       ELSE pc' = "getFileFormat" /\ p' = r[1] /\ UNCHANGED <<errs, fs>>
    /\ UNCHANGED <<other, prog, world, inputType, pkg, typeDefinitions, typeSpecs, stack, source,
                   expectMarshalingTag, tempDir, zip, output, log>>

\* main.go:455-462
RunGetFileFormat ==
    /\ pc = "getFileFormat"
    /\ IF p.InputEnv
       THEN pc' = "parsePackage" /\ inputType' = InputTypeENV /\ UNCHANGED <<errs, fs>>
       ELSE LET r == getFileFormat(p.InputFile) IN
            IF r[2] # <<>>
            THEN Return(<<r[2]>>) /\ UNCHANGED inputType
            ELSE pc' = "parsePackage" /\ inputType' = r[1] /\ UNCHANGED <<errs, fs>>
    /\ UNCHANGED <<other, prog, world, p, pkg, typeDefinitions, typeSpecs, stack, source,
                   expectMarshalingTag, tempDir, zip, output, log>>

\* main.go:464-469 and parsePackage, main.go:730-742: an error of
\* parser.ParseDir is returned, a number of packages other than 1 panics
RunParsePackage ==
    /\ pc = "parsePackage"
    /\ CASE world.dir = "parseError" ->
              Return(<< <<"parsing package: ", "syntax error">> >>) /\ UNCHANGED pkg
         [] world.dir \in {"twoPackages", "noPackage"} ->
              pc' = "panicked" /\ UNCHANGED <<pkg, errs, fs>>
         [] OTHER ->
              pc' = "findRoot" /\ pkg' = world.pkg /\ UNCHANGED <<errs, fs>>
    /\ UNCHANGED <<other, prog, world, p, inputType, typeDefinitions, typeSpecs, stack, source,
                   expectMarshalingTag, tempDir, zip, output, log>>

Frame(e) == [e |-> e, i |-> 1]

\* main.go:471-487: the root type, its rendering, and the call of
\* traverseTypeIdents on its type expression
RunFindRoot ==
    /\ pc = "findRoot"
    /\ \E rootType \in findType(pkg, p.TypeName) :
       IF rootType = Nil
       THEN /\ Return(<< <<"type ", p.TypeName, " not found in package ", pkg.Name, "\n">> >>)
            /\ UNCHANGED <<typeDefinitions, typeSpecs, stack>>
       ELSE /\ typeDefinitions' = <<renderGoType(rootType)>>
            /\ typeSpecs' = {rootType}
            /\ stack' = <<Frame(rootType.Type)>>
            /\ pc' = "walk"
            /\ UNCHANGED <<errs, fs>>
    /\ UNCHANGED <<other, prog, world, p, inputType, pkg, source, expectMarshalingTag, tempDir, zip,
                   output, log>>

\* A call of traverseTypeIdents from the frame on top of the stack: the
\* caller moves on to its next child and the callee starts.  A goroutine
\* stack that cannot grow ends the process ("stack overflow").
call(st, e) ==
    IF Len(st) < MaxStack
    THEN [pc |-> "walk",
          stack |-> Append([st EXCEPT ![Len(st)].i = @ + 1], Frame(e))]
    ELSE [pc |-> "overflow", stack |-> st]

ret(st) == [pc |-> "walk", stack |-> SubSeq(st, 1, Len(st) - 1)]

\* One step of traverseTypeIdents, main.go:813-839, in the frame on top of
\* the stack: the next call it makes, or its return; a set, of one element
\* for each pair of results of the two calls of findType on an identifier.
traverseTypeIdents(package, st, specs, defs, es) ==
    LET top == st[Len(st)]
        e == top.e
        same == [typeSpecs |-> specs, typeDefinitions |-> defs, errs |-> es]
        go(r) == [pc |-> r.pc, stack |-> r.stack, typeSpecs |-> specs,
                  typeDefinitions |-> defs, errs |-> es]
    IN
    CASE e.k = "struct" ->
           IF top.i <= Len(e.Fields)
           THEN {go(call(st, e.Fields[top.i].Type))} ELSE {go(ret(st))}
      [] e.k = "array" ->
           IF top.i = 1 THEN {go(call(st, e.Elt))} ELSE {go(ret(st))}
      [] e.k = "map" ->
           IF top.i = 1 THEN {go(call(st, e.Key))}
           ELSE IF top.i = 2 THEN {go(call(st, e.Value))}
           ELSE {go(ret(st))}
      [] e.k = "ident" ->
           IF top.i = 1
           THEN {LET v == visit(specs, defs, es, e.Name, t)
                     r == IF v.stop \/ x = Nil THEN ret(st) ELSE call(st, x.Type)
                 IN [pc |-> r.pc, stack |-> r.stack, typeSpecs |-> v.typeSpecs,
                     typeDefinitions |-> v.typeDefinitions, errs |-> v.errs] :
                    t \in findType(package, e.Name), x \in findType(package, e.Name)}
           ELSE {go(ret(st))}
      [] OTHER -> {go(ret(st))}

WalkStep ==
    /\ pc = "walk"
    /\ stack # <<>>
    /\ \E r \in traverseTypeIdents(pkg, stack, typeSpecs, typeDefinitions, errs) :
       /\ pc' = r.pc
       /\ stack' = r.stack
       /\ typeSpecs' = r.typeSpecs
       /\ typeDefinitions' = r.typeDefinitions
       /\ errs' = r.errs
    /\ UNCHANGED <<other, prog, world, p, inputType, pkg, source, expectMarshalingTag, fs, tempDir,
                   zip, output, log>>

\* main.go:508-510
RunAfterWalk ==
    /\ pc = "walk"
    /\ stack = <<>>
    /\ IF errs # <<>> THEN Return(errs) ELSE pc' = "synthesize" /\ UNCHANGED <<errs, fs>>
    /\ UNCHANGED <<other, prog, world, p, inputType, pkg, typeDefinitions, typeSpecs, stack, source,
                   expectMarshalingTag, tempDir, zip, output, log>>

\* What reading the input does, by input type: an error, a panic of
\* envToMap (main.go:914-924), or the payload.
readInput(it, w) ==
    CASE it = InputTypeENV ->
           IF w.env = "noEquals" THEN [r |-> "panic"] ELSE [r |-> "ok"]
      [] it = InputTypeDOTENV ->
           IF w.input = "missing" THEN [r |-> "err", err |-> <<"reading input file: ", "open">>]
           ELSE IF w.input = "malformed"
               THEN [r |-> "err", err |-> <<"parsing dotenv file: ", "unexpected character">>]
           ELSE [r |-> "ok"]
      [] it = InputTypeJSONNET ->
           IF w.input # "ok" THEN [r |-> "err", err |-> <<"evaluating Jsonnet: ", w.input>>]
           ELSE [r |-> "ok"]
      [] OTHER ->
           IF w.input = "missing" THEN [r |-> "err", err |-> <<"reading input file: ", "open">>]
           ELSE [r |-> "ok"]

\* main.go:512-586: read the input, render the program, choose the tag key
RunSynthesize ==
    /\ pc = "synthesize"
    /\ log' = [log EXCEPT !.inputRead = TRUE,
                          !.synthesized = (readInput(inputType, world).r = "ok")]
    /\ LET in == readInput(inputType, world) IN
       CASE in.r = "panic" ->
              pc' = "panicked" /\ UNCHANGED <<errs, fs, source, expectMarshalingTag>>
         [] in.r = "err" ->
              Return(<<in.err>>) /\ UNCHANGED <<source, expectMarshalingTag>>
         [] OTHER ->
              /\ source' = mustRenderSrc(typeDefinitions, p.TypeName, world.input,
                                         Base(p.InputFile), templateOfInputType(inputType))
              /\ expectMarshalingTag' = tagOfInputType(inputType)
              /\ pc' = "tagCheck"
              /\ UNCHANGED <<errs, fs>>
    /\ UNCHANGED <<other, prog, world, p, inputType, pkg, typeDefinitions, typeSpecs, stack, tempDir,
                   zip, output>>

\* RunTagCheck that goes on after violations
RunTagCheckNoGate ==
    /\ pc = "tagCheck"
    /\ \/ /\ ~p.NoTagCheck
          /\ \E keys \in sortedKeys(typeSpecs) :
                errs' = errs \o checkAll(typeSpecs, keys, expectMarshalingTag)
          /\ pc' = "mkdirTemp"
          /\ log' = [log EXCEPT !.tagCalls = Cardinality(typeSpecs)]
          /\ UNCHANGED fs
       \/ /\ p.NoTagCheck
          /\ pc' = "mkdirTemp"
          /\ UNCHANGED <<errs, fs, log>>
    /\ UNCHANGED <<other, prog, world, p, inputType, pkg, typeDefinitions, typeSpecs, stack, source,
                   expectMarshalingTag, tempDir, zip, output>>

\* RunTagCheck that does not look at NoTagCheck
RunTagCheckAlways ==
    /\ pc = "tagCheck"
    /\ \E keys \in sortedKeys(typeSpecs) :
          LET found == checkAll(typeSpecs, keys, expectMarshalingTag) IN
          IF errs \o found # <<>>
          THEN Return(errs \o found)
          ELSE pc' = "mkdirTemp" /\ UNCHANGED <<errs, fs>>
    /\ log' = [log EXCEPT !.tagCalls = Cardinality(typeSpecs)]
    /\ UNCHANGED <<other, prog, world, p, inputType, pkg, typeDefinitions, typeSpecs, stack, source,
                   expectMarshalingTag, tempDir, zip, output>>

\* main.go:588-598
RunTagCheck ==
    /\ pc = "tagCheck"
    /\ \/ /\ ~p.NoTagCheck
          /\ \E keys \in sortedKeys(typeSpecs) :
                LET found == checkAll(typeSpecs, keys, expectMarshalingTag) IN
                IF errs \o found # <<>>
                THEN Return(errs \o found)
                ELSE pc' = "mkdirTemp" /\ UNCHANGED <<errs, fs>>
          /\ log' = [log EXCEPT !.tagCalls = Cardinality(typeSpecs)]
       \/ /\ p.NoTagCheck
          /\ pc' = "mkdirTemp"
          /\ UNCHANGED <<errs, fs, log>>
    /\ UNCHANGED <<other, prog, world, p, inputType, pkg, typeDefinitions, typeSpecs, stack, source,
                   expectMarshalingTag, tempDir, zip, output>>

\* os.MkdirTemp(dir, "valfile-*"): dir, a separator, the prefix and a random
\* string, put together without cleaning
TempPrefix == <<"v", "-">>
TempRandoms == {<<"1">>, <<"2">>}
tempName(dir, random) == dir \o <<Sep>> \o TempPrefix \o random

\* RunMkdirTemp on a directory of a fixed name that may exist already
RunMkdirTempShared ==
    /\ pc = "mkdirTemp"
    /\ \/ /\ tempDir' = tempName(TmpRoot, <<"1">>)
          /\ fs' = fs \cup {DirAt(tempName(TmpRoot, <<"1">>))}
          /\ pc' = "writeMain"
          /\ UNCHANGED errs
       \/ /\ Return(<< <<"creating temporary directory: ", "mkdir">> >>)
          /\ UNCHANGED tempDir
    /\ UNCHANGED <<other, prog, world, p, inputType, pkg, typeDefinitions, typeSpecs, stack,
                   source, expectMarshalingTag, zip, output, log>>

\* main.go:600-604
RunMkdirTemp ==
    /\ pc = "mkdirTemp"
    /\ \/ \E r \in TempRandoms :
             /\ DirAt(tempName(TmpRoot, r)) \notin fs
             /\ tempDir' = tempName(TmpRoot, r)
             /\ fs' = fs \cup {DirAt(tempName(TmpRoot, r))}
             /\ pc' = "writeMain"
             /\ UNCHANGED errs
       \/ /\ Return(<< <<"creating temporary directory: ", "mkdir">> >>)
          /\ UNCHANGED tempDir
    /\ UNCHANGED <<other, prog, world, p, inputType, pkg, typeDefinitions, typeSpecs, stack, source,
                   expectMarshalingTag, zip, output, log>>

MainGo == <<"m", "a", "i", "n", ".", "g", "o">>
GoMod == <<"g", "o", ".", "m", "o", "d">>
GoSum == <<"g", "o", ".", "s", "u", "m">>

\* main.go:606-623: os.WriteFile of one of the three files, or its failure
RunWrite(at, name, then) ==
    /\ pc = at
    /\ \/ /\ fs' = fs \cup {FileAt(Join(tempDir, name))}
          /\ pc' = then
          /\ UNCHANGED errs
       \/ Return(<< <<"writing ">> \o Join(tempDir, name) \o <<": ", "write">> >>)
    /\ UNCHANGED <<other, prog, world, p, inputType, pkg, typeDefinitions, typeSpecs, stack, source,
                   expectMarshalingTag, tempDir, zip, output, log>>

RunWriteMain == RunWrite("writeMain", MainGo, "writeMod")
RunWriteMod == RunWrite("writeMod", GoMod, "writeSum")
RunWriteSum == RunWrite("writeSum", GoSum, "unzip")

-----------------------------------------------------------------------------
(* unzipArchive *)

\* An archive: whether zip.NewReader accepts it, and the names of its entries.
Archive(names) == [ok |-> TRUE, files |-> names]
Corrupt == [ok |-> FALSE, files |-> <<>>]

\* the directories os.MkdirAll(path) makes sure of: path and the
\* directories above it
RECURSIVE Parents(_)
Parents(path) ==
    IF path \in {<<Sep>>, Dot} THEN {}
    ELSE {path} \cup Parents(Dir(path))

\* os.MkdirAll can succeed: no path it needs is a regular file
canMkdirAll(files, path) == \A q \in Parents(path) : FileAt(q) \notin files
MkdirAll(files, path) == files \cup {DirAt(q) : q \in Parents(path)}

\* os.Create can succeed: the path is no directory
canCreate(files, path) == DirAt(path) \notin files

\* illegalPath without the separator behind the destination
illegalPathNoSeparator(destPath, dst) == ~HasPrefix(destPath, Clean(dst))

\* the ZipSlip check, main.go:880
illegalPath(destPath, dst) == ~HasPrefix(destPath, Clean(dst) \o <<Sep>>)

\* main.go:864-868
UnzipOpen ==
    /\ pc = "unzipOpen"
    /\ IF zip.archive.ok
       THEN pc' = "unzipLoop" /\ UNCHANGED zip
       ELSE /\ zip' = [zip EXCEPT !.err = <<"creating zip reader: ", "not a valid zip file">>]
            /\ pc' = "unzipped"
    /\ UNCHANGED <<other, prog, world, p, inputType, pkg, typeDefinitions, typeSpecs, errs, stack,
                   source, expectMarshalingTag, fs, tempDir, output, log>>

\* One iteration of the loop, main.go:871-909, on entry zip.i.
UnzipEntry ==
    /\ pc = "unzipLoop"
    /\ zip.i <= Len(zip.archive.files)
    /\ LET name == zip.archive.files[zip.i]
           destPath == Join(zip.dst, name)
           withDirs == MkdirAll(fs, Dir(destPath))
           withFile == withDirs \cup {FileAt(destPath)}
           fail(msg) == zip' = [zip EXCEPT !.err = msg] /\ pc' = "unzipped"
       IN
       IF HasSuffix(name, <<Sep>>)
       THEN zip' = [zip EXCEPT !.i = @ + 1] /\ UNCHANGED <<pc, fs>>
       ELSE IF illegalPath(destPath, zip.dst)
       THEN fail(<<"illegal file path: ">> \o destPath) /\ UNCHANGED fs
       ELSE \/ fail(<<"creating directory: ", "mkdir">>) /\ UNCHANGED fs
            \/ /\ canMkdirAll(fs, Dir(destPath))
               /\ fail(<<"creating file: ", "open">>)
               /\ fs' = withDirs
            \/ /\ canMkdirAll(fs, Dir(destPath))
               /\ canCreate(withDirs, destPath)
               /\ \/ fail(<<"opening file in archive: ", "open">>)
                  \/ fail(<<"copying file contents: ", "copy">>)
                  \/ zip' = [zip EXCEPT !.i = @ + 1] /\ UNCHANGED pc
               /\ fs' = withFile
    /\ UNCHANGED <<other, prog, world, p, inputType, pkg, typeDefinitions, typeSpecs, errs, stack,
                   source, expectMarshalingTag, tempDir, output, log>>

\* main.go:911
UnzipEnd ==
    /\ pc = "unzipLoop"
    /\ zip.i > Len(zip.archive.files)
    /\ pc' = "unzipped"
    /\ UNCHANGED <<other, prog, world, p, inputType, pkg, typeDefinitions, typeSpecs, errs, stack,
                   source, expectMarshalingTag, fs, tempDir, zip, output, log>>

-----------------------------------------------------------------------------
(* run, continued *)

\* The archives embedded for the input types (vendor_*.zip): a vendor tree,
\* and for the failure paths of run an archive that is no zip file and one
\* with an entry above the workspace.
VendorTree == Archive(<< <<"v", "/">>, <<"v", "/", "m">>, <<"v", "/", "a", "/", "b">> >>)
VendorSlip == Archive(<< <<"v", "/", "m">>, <<".", ".", "/", "x">>, <<"v", "/", "n">> >>)
VendorArchives == {VendorTree, VendorSlip, Corrupt}

\* main.go:625, the call
RunUnzip ==
    /\ pc = "unzip"
    /\ \E a \in VendorArchives :
          zip' = [archive |-> a, dst |-> tempDir, i |-> 1, err |-> <<>>]
    /\ pc' = "unzipOpen"
    /\ UNCHANGED <<other, prog, world, p, inputType, pkg, typeDefinitions, typeSpecs, errs, stack,
                   source, expectMarshalingTag, fs, tempDir, output, log>>

\* main.go:625-627, the return
RunAfterUnzip ==
    /\ pc = "unzipped"
    /\ tempDir # NoDir
    /\ IF zip.err # <<>>
       THEN Return(<< <<"unzipping vendor directory: ">> \o zip.err >>)
       ELSE pc' = "exec" /\ UNCHANGED <<errs, fs>>
    /\ zip' = NoZip
    /\ UNCHANGED <<other, prog, world, p, inputType, pkg, typeDefinitions, typeSpecs, stack, source,
                   expectMarshalingTag, tempDir, output, log>>

RECURSIVE SeqsUpTo(_, _)
SeqsUpTo(alphabet, n) ==
    IF n = 0 THEN {<<>>}
    ELSE LET shorter == SeqsUpTo(alphabet, n - 1) IN
         shorter \cup {Append(x, c) : x \in shorter, c \in alphabet}

\* What `go run .` prints: nothing, or text behind the marker, behind a part
\* of the marker, behind text before the marker, or behind nothing.
Outputs ==
    {pre \o body :
        pre \in {<<>>, StdoutErrPrefix, SubSeq(StdoutErrPrefix, 1, 3), <<"a">> \o StdoutErrPrefix},
        body \in SeqsUpTo({"a", "\n"}, MaxOut)}

\* interpret without the removal of trailing newlines
interpretUntrimmed(out) ==
    IF HasPrefix(out, StdoutErrPrefix)
    THEN << SubSeq(out, Len(StdoutErrPrefix) + 1, Len(out)) >>
    ELSE <<>>

\* main.go:636-642: the errors run returns for the output of a run that
\* ended with success
interpret(out) ==
    LET trimmed == TrimRight(out, "\n") IN
    IF HasPrefix(trimmed, StdoutErrPrefix)
    THEN << SubSeq(trimmed, Len(StdoutErrPrefix) + 1, Len(trimmed)) >>
    ELSE <<>>

\* main.go:629-643: `go run .` in the workspace, and what run makes of it
RunExec ==
    /\ pc = "exec"
    /\ \E out \in Outputs :
          /\ output' = out
          /\ \/ /\ Return(<< <<"exit status 1">> >>)
                /\ log' = [log EXCEPT !.executed = TRUE, !.status = "failure"]
             \/ /\ Return(interpret(out))
                /\ log' = [log EXCEPT !.executed = TRUE, !.status = "success"]
    /\ UNCHANGED <<other, prog, world, p, inputType, pkg, typeDefinitions, typeSpecs, stack, source,
                   expectMarshalingTag, tempDir, zip>>

Next ==
    \/ RunParseCLI
    \/ RunGetFileFormat
    \/ RunParsePackage
    \/ RunFindRoot
    \/ WalkStep
    \/ RunAfterWalk
    \/ RunSynthesize
    \/ RunTagCheck
    \/ RunMkdirTemp
    \/ RunWriteMain
    \/ RunWriteMod
    \/ RunWriteSum
    \/ RunUnzip
    \/ UnzipOpen
    \/ UnzipEntry
    \/ UnzipEnd
    \/ RunAfterUnzip
    \/ RunExec

Spec == Init /\ [][Next]_vars

\* Two invocations of run at work on one file system: the scheduler takes
\* the processor from the one that runs and gives it to the other one, whose
\* locals come back as it left them. The file system is shared.
Yield ==
    /\ other.pc \notin {"returned", "panicked", "overflow"}
    /\ other' = [pc |-> pc, p |-> p, inputType |-> inputType, pkg |-> pkg,
                 typeDefinitions |-> typeDefinitions, typeSpecs |-> typeSpecs,
                 errs |-> errs, stack |-> stack, source |-> source,
                 expectMarshalingTag |-> expectMarshalingTag, tempDir |-> tempDir,
                 zip |-> zip, output |-> output, log |-> log]
    /\ pc' = other.pc
    /\ p' = other.p
    /\ inputType' = other.inputType
    /\ pkg' = other.pkg
    /\ typeDefinitions' = other.typeDefinitions
    /\ typeSpecs' = other.typeSpecs
    /\ errs' = other.errs
    /\ stack' = other.stack
    /\ source' = other.source
    /\ expectMarshalingTag' = other.expectMarshalingTag
    /\ tempDir' = other.tempDir
    /\ zip' = other.zip
    /\ output' = other.output
    /\ log' = other.log
    /\ UNCHANGED <<world, fs, prog>>

\* both invocations on the package and the input of main_test.go
InitConcurrent ==
    /\ Init
    /\ world \in {World(Args(".", RootName, FileJSON, FALSE, n, TRUE), "ok", TestPackage,
                         "ok", "ok") : n \in BOOLEAN}

SpecConcurrent == InitConcurrent /\ [][Next \/ Yield]_vars

-----------------------------------------------------------------------------
(* unzipArchive on its own: every archive of up to MaxEntries entries into *)
(* every destination directory                                            *)

EntryNames ==
    { <<"a">>,
      <<"a", "/">>,
      <<"a", "/", "b">>,
      <<"/", "a">>,
      <<".">>,
      <<".", ".">>,
      <<".", ".", "/", "x">>,
      <<".", ".", "/", "x", "/">>,
      <<".", ".", "/", "w", "/", "a">>,
      <<".", ".", "/", "w", "x">>,
      <<"a", "/", ".", ".", "/", ".", ".", "/", "x">>,
      <<"a", "/", ".", ".", "/", "b">> }

Archives == {Corrupt} \cup {Archive(names) : names \in SeqsUpTo(EntryNames, MaxEntries)}

Dsts == { <<"/", "t", "/", "w">>, <<"/", "t", "/", ".", "/", "w", "/">>, <<"w">> }

\* the destination directory exists, and the directories above it
unzipInitFs(dst) == {DirAt(q) : q \in Parents(Clean(dst))}

InitUnzip ==
    /\ pc = "unzipOpen"
    /\ \E a \in Archives, dst \in Dsts :
          /\ zip = [archive |-> a, dst |-> dst, i |-> 1, err |-> <<>>]
          /\ fs = unzipInitFs(dst)
    /\ world = World(Args(".", RootName, FileJSON, FALSE, FALSE, TRUE), "ok", TestPackage,
                     "ok", "ok")
    /\ p = NoParams
    /\ inputType = 0
    /\ pkg = NoPackage
    /\ typeDefinitions = <<>>
    /\ typeSpecs = {}
    /\ errs = <<>>
    /\ stack = <<>>
    /\ source = NoSource
    /\ expectMarshalingTag = ""
    /\ tempDir = NoDir
    /\ output = <<>>
    /\ log = NoLog
    /\ prog = NoProg
    /\ other = NoOther

NextUnzip ==
    \/ UnzipOpen
    \/ UnzipEntry
    \/ UnzipEnd

SpecUnzip == InitUnzip /\ [][NextUnzip]_vars

-----------------------------------------------------------------------------
(* The synthesized program: from the rendered text to what run returns *)

\* longest payload, in pieces of text
MaxPayload == 3

\* The pieces of text a payload is made of, each one inside the body of the
\* document: "k" an entry whose key is a field of the root type and whose
\* value passes the rules of the field, "v" such an entry whose value breaks
\* a rule, "u" an entry whose key is no field of the root type, "!" text that
\* is no entry, Backquote and "+" the characters.
Backquote == "bq"
PayloadAlphabet == {"k", "v", "u", "!", Backquote, "+"}

\* the templates of main.go: tmplJSON, tmplYAML, tmplTOML, tmplHCL, tmplENV
Templates == {"main_json", "main_yaml", "main_toml", "main_hcl", "main_env"}

\* The validate tags of the root type: rules the validator knows, a rule
\* it has no function for, a rule it panics on otherwise, and a fault of the
\* runtime during the validation.
Rules == {"known", "undefined", "bad", "fault"}

\* `{{.Input}}` between the backquotes of the template, inserted as it is
inputLiteral(src) == <<Backquote>> \o src.Input \o <<Backquote>>

\* The Go scanner on the initializer of input: a raw string literal goes from
\* a backquote to the next backquote, what is outside is one token a
\* character.
RECURSIVE scan(_)
scan(text) ==
    IF text = <<>> THEN <<>>
    ELSE IF Head(text) # Backquote
        THEN <<[k |-> "tok", s |-> <<Head(text)>>]>> \o scan(Tail(text))
    ELSE LET rest == Tail(text)
             ends == {i \in 1..Len(rest) : rest[i] = Backquote}
         IN IF ends = {} THEN <<[k |-> "unterminated", s |-> rest]>>
            ELSE LET j == CHOOSE i \in ends : \A i2 \in ends : i <= i2
                 IN <<[k |-> "lit", s |-> SubSeq(rest, 1, j - 1)]>>
                        \o scan(SubSeq(rest, j + 1, Len(rest)))

\* The initializer compiles when it is raw string literals joined by +.
compiles(toks) ==
    /\ Len(toks) % 2 = 1
    /\ \A i \in 1..Len(toks) :
          IF i % 2 = 1 THEN toks[i].k = "lit"
          ELSE toks[i].k = "tok" /\ toks[i].s = <<"+">>

\* the value of the initializer: the literals, concatenated
RECURSIVE constantOf(_)
constantOf(toks) ==
    IF toks = <<>> THEN <<>>
    ELSE (IF Head(toks).k = "lit" THEN Head(toks).s ELSE <<>>) \o constantOf(Tail(toks))

\* Whether main of the template has its decoder reject a key that is no
\* field: DisallowUnknownFields, KnownFields(true), hclsimple.Decode do; the
\* TOML template drops the metadata of Decode, env.ParseWithOptions skips
\* the variables no field names.
rejectsUnknown(tmpl) == tmpl \in {"main_json", "main_yaml", "main_hcl"}

\* Text the decoder of the template cannot read: text that is no entry, and
\* in a file a backquote or a plus between entries (the value of a variable
\* may hold either).
unreadable(tmpl) == IF tmpl = "main_env" THEN {"!"} ELSE {"!", Backquote, "+"}

\* d.Decode(&value) and its like in main of the templates
decode(tmpl, input) ==
    LET pieces == {input[i] : i \in 1..Len(input)} IN
    IF pieces \cap unreadable(tmpl) # {}
    THEN [err |-> <<"syntax error">>, value |-> {}]
    ELSE IF rejectsUnknown(tmpl) /\ "u" \in pieces
        THEN [err |-> <<"unknown field">>, value |-> {}]
    ELSE [err |-> <<>>, value |-> pieces \ {"u"}]

\* reportError of the templates
reportError(msg) == StdoutErrPrefix \o msg \o <<"\n">>

\* The deferred function of the validate template without the test of the
\* prefix: every string is reported.
recoveredAnyString(v) ==
    CASE v.type = "nil" -> [out |-> <<>>, exit |-> 0]
      [] v.type = "string" -> [out |-> reportError(v.text), exit |-> 0]
      [] OTHER -> [out |-> <<"panic: ">> \o v.text \o <<"\n">>, exit |-> 2]

\* The deferred function of the validate template on the value recover
\* returns: nothing to do for nil, a string with the prefix is reported,
\* every other value is raised again and ends the program.
recovered(v) ==
    CASE v.type = "nil" -> [out |-> <<>>, exit |-> 0]
      [] v.type = "string" /\ HasPrefix(v.text, <<"Undefined validation function">>) ->
           [out |-> reportError(v.text), exit |-> 0]
      [] OTHER -> [out |-> <<"panic: ">> \o v.text \o <<"\n">>, exit |-> 2]

\* The validate template: what it prints and the exit status of the
\* program. validator.New and v.Struct panic with a string on a rule that
\* has no function and on a rule they cannot apply, and the runtime panics
\* with an error; otherwise v.Struct returns the error of the broken rules.
validate(rules, value) ==
    LET panic ==
            CASE rules = "undefined" ->
                   [type |-> "string", text |-> <<"Undefined validation function", " 'x'">>]
              [] rules = "bad" -> [type |-> "string", text |-> <<"Bad field type">>]
              [] rules = "fault" -> [type |-> "error", text |-> <<"runtime error">>]
              [] OTHER -> [type |-> "nil", text |-> <<>>]
    IN IF panic.type # "nil" THEN recovered(panic)
       ELSE LET r == recovered(panic) IN
            IF "v" \in value
            THEN [out |-> reportError(<<"validation failed">>) \o r.out, exit |-> r.exit]
            ELSE r

InitProgram ==
    /\ pc = "render"
    /\ \E t \in Templates, text \in SeqsUpTo(PayloadAlphabet, MaxPayload), r \in Rules :
          prog = [NoProg EXCEPT !.tmpl = t, !.payload = text, !.rules = r]
    /\ world = World(Args(".", RootName, FileJSON, FALSE, FALSE, TRUE), "ok", TestPackage,
                     "ok", "ok")
    /\ p = NoParams
    /\ inputType = 0
    /\ pkg = NoPackage
    /\ typeDefinitions = <<>>
    /\ typeSpecs = {}
    /\ errs = <<>>
    /\ stack = <<>>
    /\ source = NoSource
    /\ expectMarshalingTag = ""
    /\ fs = {DirAt(TmpRoot)}
    /\ tempDir = NoDir
    /\ zip = NoZip
    /\ output = <<>>
    /\ log = NoLog
    /\ other = NoOther

ProgramUnchanged ==
    UNCHANGED <<other, world, p, inputType, pkg, typeDefinitions, typeSpecs, stack,
                expectMarshalingTag, tempDir, zip, log>>

\* main.go:563-586: the payload goes into the template
ProgRender ==
    /\ pc = "render"
    /\ source' = mustRenderSrc(<<>>, RootName, prog.payload, "f", prog.tmpl)
    /\ pc' = "compile"
    /\ UNCHANGED <<prog, output, errs, fs>>
    /\ ProgramUnchanged

\* `go run .`: the program is compiled; one that does not compile prints the
\* message of the compiler and the command fails
ProgCompile ==
    /\ pc = "compile"
    /\ LET toks == scan(inputLiteral(source)) IN
       IF compiles(toks)
       THEN /\ prog' = [prog EXCEPT !.input = constantOf(toks)]
            /\ pc' = "decode"
            /\ UNCHANGED output
       ELSE /\ prog' = [prog EXCEPT !.exit = 1]
            /\ output' = <<"#", "\n">>
            /\ pc' = "exit"
    /\ UNCHANGED <<source, errs, fs>>
    /\ ProgramUnchanged

\* main of the templates, up to the validate template
ProgDecode ==
    /\ pc = "decode"
    /\ LET d == decode(prog.tmpl, prog.input) IN
       IF d.err # <<>>
       THEN /\ output' = reportError(d.err)
            /\ pc' = "exit"
            /\ UNCHANGED prog
       ELSE /\ prog' = [prog EXCEPT !.value = d.value]
            /\ pc' = "validate"
            /\ UNCHANGED output
    /\ UNCHANGED <<source, errs, fs>>
    /\ ProgramUnchanged

\* the validate template
ProgValidate ==
    /\ pc = "validate"
    /\ LET r == validate(prog.rules, prog.value) IN
          /\ output' = r.out
          /\ prog' = [prog EXCEPT !.validated = TRUE, !.exit = r.exit]
    /\ pc' = "exit"
    /\ UNCHANGED <<source, errs, fs>>
    /\ ProgramUnchanged

\* main.go:629-643: what run makes of the output and the exit status
ProgExit ==
    /\ pc = "exit"
    /\ IF prog.exit # 0
       THEN Return(<< <<"exit status">> >>)
       ELSE Return(interpret(output))
    /\ UNCHANGED <<prog, source, output>>
    /\ ProgramUnchanged

NextProgram ==
    \/ ProgRender
    \/ ProgCompile
    \/ ProgDecode
    \/ ProgValidate
    \/ ProgExit

SpecProgram == InitProgram /\ [][NextProgram]_vars

-----------------------------------------------------------------------------
(* Properties *)

Terminal == {"returned", "panicked", "overflow"}

\* the identifiers of a type expression that the closure is defined over:
\* those of struct fields, array and slice elements, map keys and values
RECURSIVE identsOf(_)
identsOf(e) ==
    CASE e.k = "ident" -> {e.Name}
      [] e.k = "array" -> identsOf(e.Elt)
      [] e.k = "map" -> identsOf(e.Key) \cup identsOf(e.Value)
      [] e.k = "struct" -> UNION {identsOf(e.Fields[i].Type) : i \in 1..Len(e.Fields)}
      [] OTHER -> {}

\* name is declared as a type at the top level of a file of the package
declaresType(package, name) ==
    \E f \in package.Files : name \in DOMAIN f /\ f[name].Kind = "typ"

\* the type expressions name is declared as
declsOf(package, name) ==
    {f[name].Type : f \in {g \in package.Files : name \in DOMAIN g /\ g[name].Kind = "typ"}}

RECURSIVE reachFrom(_, _, _)
reachFrom(package, names, n) ==
    IF n = 0 THEN names
    ELSE reachFrom(package,
                   names \cup UNION {identsOf(d) :
                                        d \in UNION {declsOf(package, m) : m \in names}},
                   n - 1)

\* the identifiers reachable from the root type
ReachableIdents(package, root) ==
    reachFrom(package, {root}, Cardinality(UNION {DOMAIN f : f \in package.Files}) + 1)

UndefinedReachable(package, root) ==
    \E n \in ReachableIdents(package, root) :
        ~isTypePrimitive(n) /\ ~declaresType(package, n)

\* the walk has started: the package is parsed and holds the root type
Walked == pkg # NoPackage /\ declaresType(pkg, p.TypeName)

\* C1: the closure walk terminates for every package and root type, cyclic
\* type graphs included: traverseTypeIdents never recurses until the stack
\* of the goroutine is exhausted.
C1_WalkTerminates == pc # "overflow"

\* C2: when an identifier reachable from the root type resolves to no
\* declaration, run never reads the input, synthesizes, creates a workspace
\* or executes, and it ends by returning undefined-type errors and nothing
\* else.
C2_UndefinedAborts ==
    (Walked /\ UndefinedReachable(pkg, p.TypeName)) =>
        /\ ~log.inputRead /\ ~log.synthesized /\ ~log.executed
        /\ tempDir = NoDir
        /\ fs = {DirAt(TmpRoot)}
        /\ pc \in Terminal =>
              /\ pc = "returned"
              /\ errs # <<>>
              /\ \A i \in 1..Len(errs) : errs[i][1] = "undefined type: "

\* the field has no non-empty tag for the key
lacksTag(f, key) ==
    \/ ~f.Tag.lit
    \/ ~f.Tag.wellFormed
    \/ ~\E i \in 1..Len(f.Tag.pairs) : f.Tag.pairs[i][1] = key /\ f.Tag.pairs[i][2] # ""

\* the struct fields a field declaration declares: one per name, and one
\* for an embedded field
declared(f) == IF f.Names = <<>> THEN 1 ELSE Len(f.Names)

RECURSIVE offendingFields(_, _)
offendingFields(fields, key) ==
    IF fields = <<>> THEN 0
    ELSE (IF lacksTag(Head(fields), key) THEN declared(Head(fields)) ELSE 0)
         + offendingFields(Tail(fields), key)

RECURSIVE offending(_, _)
\* the offending fields of the struct types among the declarations specs
offending(specs, key) ==
    IF specs = {} THEN 0
    ELSE LET t == CHOOSE x \in specs : TRUE IN
         (IF t.Type.k = "struct" THEN offendingFields(t.Type.Fields, key) ELSE 0)
         + offending(specs \ {t}, key)

\* the error is one of checkMarshalingTags: "<type>.<field>: <message>"
isTagViolation(e) == Len(e) >= 4 /\ e[2] = "." /\ e[4] = ": "

tagViolations(es) == Cardinality({i \in 1..Len(es) : isTagViolation(es[i])})

\* C3: the tag check emits exactly one violation for every field that lacks
\* a non-empty tag for the expected key, in every struct type of the closure
\* and however the fields are written.
C3_OneViolationPerField ==
    (pc = "returned" /\ log.tagCalls > 0) =>
        tagViolations(errs) = offending(typeSpecs, expectMarshalingTag)

\* the tag key the input of the command line calls for
claimedKey(args) ==
    IF args.InputEnv THEN "env"
    ELSE CASE args.InputFile \in {FileDotenv, FileDotenvLocal, FileDotenvDot} -> "env"
           [] args.InputFile \in {FileTOML} -> "toml"
           [] args.InputFile \in {FileJSON, FileJSONUpper, FileJSONNET, FileDotenvJSON} -> "json"
           [] args.InputFile \in {FileYAML, FileYML} -> "yaml"
           [] args.InputFile \in {FileHCL} -> "hcl"
           [] OTHER -> "none"

UntaggedFoo == PackageOf(StructType(<<Field(<<"Foo">>, Ident("string"), NoTag)>>))

\* C4: the tag key of the tag check is fixed by the input type (env for the
\* environment and dotenv files, toml, json for JSON and Jsonnet, yaml,
\* hcl), and for a root struct with the one untagged field Foo run returns
\* exactly the error `<Type>.Foo: missing tag "<key>"`.
C4_TagKeyOfInputType ==
    /\ log.synthesized => expectMarshalingTag = claimedKey(world.args)
    /\ (pc = "returned" /\ log.tagCalls > 0 /\ pkg = UntaggedFoo) =>
          errs = << <<p.TypeName, ".", "Foo", ": ", "missing tag ", "\"",
                      claimedKey(world.args), "\"">> >>

C4_Witness ==
    /\ pc = "returned"
    /\ pkg = UntaggedFoo
    /\ inputType = InputTypeJSONNET
    /\ errs = << <<"Config", ".", "Foo", ": ", "missing tag ", "\"", "json", "\"">> >>

\* C5: when the tag check is enabled and finds a violation, no workspace is
\* created and nothing is executed, and run returns tag violations only,
\* whatever the payload.
C5_ViolationsGate ==
    (log.tagCalls > 0 /\ offending(typeSpecs, expectMarshalingTag) > 0) =>
        /\ pc = "returned"
        /\ tempDir = NoDir
        /\ fs = {DirAt(TmpRoot)}
        /\ ~log.executed
        /\ errs # <<>>
        /\ \A i \in 1..Len(errs) : isTagViolation(errs[i])

C5_Witness ==
    /\ pc = "returned"
    /\ log.tagCalls > 0
    /\ world.input = "malformed"
    /\ inputType = InputTypeTOML
    /\ errs # <<>>
    /\ isTagViolation(errs[1])

\* C6: with -no-tag-check checkMarshalingTags is never called and run
\* returns no tag violation; the step after synthesis goes on to the
\* creation of the workspace whatever the tags of the closure.
C6_NoTagCheck ==
    /\ [](p.NoTagCheck =>
            /\ log.tagCalls = 0
            /\ \A i \in 1..Len(errs) : ~isTagViolation(errs[i]))
    /\ [][(pc = "tagCheck" /\ p.NoTagCheck) =>
            (pc' = "mkdirTemp" /\ errs' = errs /\ log' = log)]_vars

C6_Witness ==
    /\ p.NoTagCheck
    /\ Cardinality(typeSpecs) = 2
    /\ offending(typeSpecs, expectMarshalingTag) > 0
    /\ log.executed

\* C7: a run that ends with success status and whose combined output is
\* not empty and does not begin with the marker makes run report a failure.
C7_UnmarkedOutputFails ==
    (/\ pc = "returned"
     /\ log.status = "success"
     /\ output # <<>>
     /\ ~HasPrefix(output, StdoutErrPrefix)) => errs # <<>>

\* m is s without its trailing newlines
withoutTrailingNewlines(s, m) ==
    /\ Len(m) <= Len(s)
    /\ SubSeq(s, 1, Len(m)) = m
    /\ \A i \in (Len(m) + 1)..Len(s) : s[i] = "\n"
    /\ m # <<>> => m[Len(m)] # "\n"

\* C8: after a run with success status, an output that is empty once its
\* trailing newlines are removed gives no error, and an output that begins
\* with the marker gives exactly one error: the output without the marker
\* and without trailing newlines, not split into lines.
C8_Interpretation ==
    (pc = "returned" /\ log.status = "success") =>
        /\ withoutTrailingNewlines(output, <<>>) => errs = <<>>
        /\ HasPrefix(output, StdoutErrPrefix) =>
              /\ Len(errs) = 1
              /\ withoutTrailingNewlines(
                     SubSeq(output, Len(StdoutErrPrefix) + 1, Len(output)), errs[1])

C8_Witness ==
    /\ pc = "returned"
    /\ log.status = "success"
    /\ output = StdoutErrPrefix \o <<"\n", "a">>
    /\ errs = << <<"\n", "a">> >>

\* the workspace, or something in it, exists
WorkspaceExists ==
    \E q \in fs : q.path = tempDir \/ HasPrefix(q.path, tempDir \o <<Sep>>)

\* C9: once run has created its workspace, the workspace no longer exists
\* when run returns, on every exit path.
C9_WorkspaceRemoved ==
    (pc = "returned" /\ tempDir # NoDir) => ~WorkspaceExists

C9_Witness ==
    /\ pc = "returned"
    /\ tempDir # NoDir
    /\ log.status = "failure"
    /\ ~WorkspaceExists

\* the elements of a cleaned path
elemsOf(path) == CleanElems(Split(path), <<>>, path # <<>> /\ path[1] = Sep)

\* path lies in dst: below it, by path elements
Below(path, dst) ==
    /\ (path # <<>> /\ path[1] = Sep) = (dst # <<>> /\ dst[1] = Sep)
    /\ Len(elemsOf(path)) > Len(elemsOf(dst))
    /\ SubSeq(elemsOf(path), 1, Len(elemsOf(dst))) = elemsOf(dst)

Outside(path, dst) == ~Below(path, dst) /\ elemsOf(path) # elemsOf(dst)

\* what unzipArchive has created
unzipCreated == fs \ unzipInitFs(zip.dst)

\* the entries the loop has gone past
passed == 1..(zip.i - 1)

-----------------------------------------------------------------------------
(* C11 *)

\* the command line is one the claim lists: no package directory, no type
\* name, neither -f nor -env, or both
badParams(args) ==
    \/ args.PackageDir = ""
    \/ args.TypeName = ""
    \/ (~args.InputEnv /\ args.InputFile = <<>>)
    \/ (args.InputEnv /\ args.InputFile # <<>>)

\* run has returned and has done nothing but look at its parameters
onlyParams ==
    /\ pc = "returned"
    /\ Len(errs) = 1
    /\ pkg = NoPackage
    /\ typeSpecs = {}
    /\ ~log.inputRead /\ ~log.synthesized /\ ~log.executed
    /\ tempDir = NoDir
    /\ fs = {DirAt(TmpRoot)}

\* C11, as claimed: on a command line with an empty package directory, no
\* type name, neither or both of -f and -env, run returns exactly one error
\* and does nothing else, and the error is "missing type name" whenever the
\* flags parse and -t is absent; past the parameters exactly one of -f and
\* -env is set.
C11_ParamsFirst ==
    /\ (badParams(world.args) /\ pc # "start") =>
          /\ onlyParams
          /\ (world.args.flagsOK /\ world.args.TypeName = "") =>
                errs = << <<"missing type name">> >>
    /\ p # NoParams => (p.InputEnv # (p.InputFile # <<>>))

\* C11, amended: the same, with the error "missing type name" when -t is
\* absent on a command line whose flags parse and whose package directory
\* is not empty; an empty package directory is reported first.
C11_ParamsFirstInOrder ==
    /\ (badParams(world.args) /\ pc # "start") =>
          /\ onlyParams
          /\ (world.args.flagsOK /\ world.args.PackageDir # ""
                /\ world.args.TypeName = "") => errs = << <<"missing type name">> >>
          /\ (world.args.flagsOK /\ world.args.PackageDir = "") =>
                errs = << <<"missing package directory">> >>
    /\ p # NoParams => (p.InputEnv # (p.InputFile # <<>>))

C11_Witness ==
    /\ pc = "returned"
    /\ world.args.flagsOK
    /\ world.args.PackageDir = "."
    /\ world.args.TypeName = ""
    /\ world.args.InputEnv /\ world.args.InputFile # <<>>
    /\ errs = << <<"missing type name">> >>

-----------------------------------------------------------------------------
(* C12 *)

\* C12: when the root type name resolves to no top-level type declaration
\* of the parsed package, run returns exactly one error, which names the
\* type and the package, and there is no closure walk, tag check,
\* synthesis, workspace or execution.
C12_RootTypeNotFound ==
    (pkg # NoPackage /\ ~declaresType(pkg, p.TypeName) /\ pc # "findRoot") =>
        /\ pc = "returned"
        /\ errs = << <<"type ", p.TypeName, " not found in package ", pkg.Name, "\n">> >>
        /\ stack = <<>> /\ typeSpecs = {} /\ typeDefinitions = <<>>
        /\ log.tagCalls = 0
        /\ ~log.inputRead /\ ~log.synthesized /\ ~log.executed
        /\ tempDir = NoDir
        /\ fs = {DirAt(TmpRoot)}

C12_Witness ==
    /\ pc = "returned"
    /\ p.TypeName = "version"
    /\ pkg.Name = "main"
    /\ errs = << <<"type ", "version", " not found in package ", "main", "\n">> >>

-----------------------------------------------------------------------------
(* C13 *)

\* the root type is declared, and not as a struct
NonStructRoot ==
    /\ pkg # NoPackage
    /\ declaresType(pkg, p.TypeName)
    /\ \A d \in declsOf(pkg, p.TypeName) : d.k # "struct"

\* C13: when the root type is declared as something other than a struct,
\* run reports an error and stops before any synthesis, workspace creation
\* or execution.
C13_NonStructRootRejected ==
    NonStructRoot =>
        /\ ~log.synthesized /\ ~log.executed
        /\ tempDir = NoDir
        /\ pc \in Terminal => (pc = "returned" /\ errs # <<>>)

-----------------------------------------------------------------------------
(* C14 *)

piecesOf(text) == {text[i] : i \in 1..Len(text)}

\* C14: for JSON, YAML, TOML and HCL, a payload the decoder can read that
\* holds a key matching no field of the root type makes the program print a
\* message behind the marker and stop before the validation, and run
\* returns one error, the one reporting the unknown field.
C14_UnknownFieldRejected ==
    (/\ pc = "returned"
     /\ prog.tmpl \in {"main_json", "main_yaml", "main_toml", "main_hcl"}
     /\ "u" \in piecesOf(prog.payload)
     /\ piecesOf(prog.payload) \cap {"!", Backquote, "+"} = {}) =>
        /\ HasPrefix(output, StdoutErrPrefix)
        /\ ~prog.validated
        /\ errs = << <<"unknown field">> >>

-----------------------------------------------------------------------------
(* C15 *)

RECURSIVE dfsExpr(_, _, _)
RECURSIVE dfsFields(_, _, _, _)
\* The list acc of declarations, extended by those the type expression e
\* leads to, depth first: a declared type that is not yet in the list is
\* appended and then its own declaration is gone through.
dfsExpr(package, e, acc) ==
    CASE e.k = "ident" ->
           IF \/ isTypePrimitive(e.Name)
              \/ ~declaresType(package, e.Name)
              \/ \E i \in 1..Len(acc) : acc[i][1] = e.Name
           THEN acc
           ELSE LET d == CHOOSE x \in declsOf(package, e.Name) : TRUE IN
                dfsExpr(package, d, Append(acc, <<e.Name, d>>))
      [] e.k = "array" -> dfsExpr(package, e.Elt, acc)
      [] e.k = "map" -> dfsExpr(package, e.Value, dfsExpr(package, e.Key, acc))
      [] e.k = "struct" -> dfsFields(package, e.Fields, 1, acc)
      [] OTHER -> acc

\* the fields from the i-th on, in declared order
dfsFields(package, fields, i, acc) ==
    IF i > Len(fields) THEN acc
    ELSE dfsFields(package, fields, i + 1, dfsExpr(package, fields[i].Type, acc))

\* the depth-first first-discovery order of the closure, the root first
closureOrder(package, root) ==
    LET d == CHOOSE x \in declsOf(package, root) : TRUE IN
    dfsExpr(package, d, << <<root, d>> >>)

IsPrefix(s, t) == Len(s) <= Len(t) /\ SubSeq(t, 1, Len(s)) = s

\* C15: the list of rendered declarations is the depth-first
\* first-discovery order from the root, a function of the package and the
\* root alone: during the walk it is a prefix of that order, and after the
\* walk it is that order.
C15_DiscoveryOrder ==
    (Walked /\ typeDefinitions # <<>>) =>
        /\ IsPrefix(typeDefinitions, closureOrder(pkg, p.TypeName))
        /\ stack = <<>> => typeDefinitions = closureOrder(pkg, p.TypeName)

-----------------------------------------------------------------------------
(* C16 *)

\* C16: in every state the list of rendered declarations holds no type
\* twice and no primitive type name, and its names are those of the
\* typeSpecs index.
C16_ClosureInvariant ==
    LET n == Len(typeDefinitions) IN
    /\ \A i, j \in 1..n : i # j => typeDefinitions[i][1] # typeDefinitions[j][1]
    /\ \A i \in 1..n : ~isTypePrimitive(typeDefinitions[i][1])
    /\ {typeDefinitions[i][1] : i \in 1..n} = {t.Name : t \in typeSpecs}
    /\ Cardinality(typeSpecs) = n

\* the walk is over and Sub, reached through both fields of Config, is in
\* the list once
C16_Witness ==
    /\ pc = "synthesize"
    /\ Len(typeDefinitions) = 2
    /\ typeDefinitions[1][2].k = "struct"
    /\ Len(typeDefinitions[1][2].Fields) = 2
    /\ \A i \in 1..2 : typeDefinitions[1][2].Fields[i].Type = Ident(SubName)
    /\ typeDefinitions[2][1] = SubName

-----------------------------------------------------------------------------
(* C19 *)

\* the identifiers reachable from the root type that resolve to nothing
UndefinedIdents(package, root) ==
    {n \in ReachableIdents(package, root) :
        ~isTypePrimitive(n) /\ ~declaresType(package, n)}

\* traverseTypeIdents is about to call the callback on an identifier that
\* resolves to nothing
AtUndefined ==
    /\ pc = "walk" /\ stack # <<>>
    /\ LET top == stack[Len(stack)] IN
       /\ top.e.k = "ident" /\ top.i = 1
       /\ ~isTypePrimitive(top.e.Name)
       /\ ~declaresType(pkg, top.e.Name)

\* C19: an identifier that resolves to nothing records the error
\* "undefined type: <name>" and ends its own call of the walk only, the
\* callers going on with what follows it; and the run reports every such
\* identifier reachable from the root, those of two fields of one struct
\* included.
C19_UndefinedBranchOnly ==
    /\ []((Walked /\ pc \in Terminal /\ UndefinedIdents(pkg, p.TypeName) # {}) =>
            /\ pc = "returned"
            /\ \A i \in 1..Len(errs) : errs[i][1] = "undefined type: "
            /\ {errs[i][2] : i \in 1..Len(errs)} = UndefinedIdents(pkg, p.TypeName))
    /\ [][AtUndefined =>
            /\ errs' = Append(errs, <<"undefined type: ", stack[Len(stack)].e.Name>>)
            /\ stack' = SubSeq(stack, 1, Len(stack) - 1)
            /\ pc' = "walk"]_vars

-----------------------------------------------------------------------------
(* C20 *)

\* C20: the tag check is over before the input is read and the program is
\* synthesized; a run with the tag check enabled whose closure has tag
\* violations returns tag violations, whatever the state of the input.
C20_TagCheckBeforeInput ==
    /\ (~p.NoTagCheck /\ (log.inputRead \/ log.synthesized)) => log.tagCalls > 0
    /\ (/\ pc = "returned" /\ log.inputRead /\ ~p.NoTagCheck
        /\ offending(typeSpecs, claimedKey(world.args)) > 0) =>
          /\ errs # <<>>
          /\ \A i \in 1..Len(errs) : isTagViolation(errs[i])

-----------------------------------------------------------------------------
(* C17 *)

\* what decoding the payload gives, and what the validation pass prints on it
payloadDecoded == decode(prog.tmpl, prog.payload)
payloadValidated == validate(prog.rules, payloadDecoded.value)

\* the validation pass reports a failure: a rule is broken or undefined
reportsFailure ==
    \/ prog.rules = "undefined"
    \/ prog.rules = "known" /\ "v" \in payloadDecoded.value

\* C17: when the program is over it has printed nothing exactly when the
\* payload decodes into the root type and the validation pass prints
\* nothing; when the payload fails to decode, the output begins with the
\* marker and the validation pass has not run; when the validation pass
\* reports a failure, the output begins with the marker.
C17_SilentIffConforming ==
    pc \in {"exit", "returned"} =>
        /\ output = <<>> <=> (payloadDecoded.err = <<>> /\ payloadValidated.out = <<>>)
        /\ payloadDecoded.err # <<>> =>
              HasPrefix(output, StdoutErrPrefix) /\ ~prog.validated
        /\ (payloadDecoded.err = <<>> /\ reportsFailure) =>
              HasPrefix(output, StdoutErrPrefix)

-----------------------------------------------------------------------------
(* C18 *)

\* C18: for every payload, one that holds backquotes included, the program
\* compiles and the string it decodes is the payload: the payload neither
\* ends the literal early nor becomes program text outside it.
C18_PayloadIsInput ==
    pc \notin {"render", "compile"} =>
        /\ prog.exit # 1
        /\ prog.input = prog.payload

-----------------------------------------------------------------------------
(* C21 *)

\* the names of the closure, in the order of discovery
discoveryOrder == [i \in 1..Len(typeDefinitions) |-> typeDefinitions[i][1]]

\* the types named in a list of tag violations
violators(es) == {es[i][1] : i \in {j \in 1..Len(es) : isTagViolation(es[j])}}

\* C21: the tag violations a run returns are those of the types of the
\* closure taken in discovery order, the fields of each type in declared
\* order, whatever the order in which the map of the closure is iterated.
C21_ViolationsInDiscoveryOrder ==
    (/\ pc = "returned"
     /\ log.tagCalls > 0
     /\ Cardinality(violators(errs)) >= 2) =>
        errs = checkAll(typeSpecs, discoveryOrder, expectMarshalingTag)

-----------------------------------------------------------------------------
(* C22 *)

\* C22: on a directory that holds two packages or none, or a file that
\* fails to parse, the process does not end abnormally and run returns a
\* single error, that of parsePackage.
C22_PackageErrorsReturned ==
    world.dir \in {"parseError", "twoPackages", "noPackage"} =>
        /\ pc # "panicked"
        /\ pc = "returned" =>
              /\ Len(errs) = 1
              /\ errs[1][1] = "parsing package: "

-----------------------------------------------------------------------------
(* C23 *)

\* C23: in the validation of the program, the panic of an undefined
\* validation function is recovered, printed once behind the marker, and the
\* program ends normally, so run returns its message; a panic with another
\* string or with a value that is no string ends the program abnormally
\* with nothing behind the marker, and run returns the error of the
\* execution.
C23_RecoverSelective ==
    (pc = "returned" /\ prog.validated) =>
        /\ prog.rules = "undefined" =>
              /\ prog.exit = 0
              /\ output = reportError(<<"Undefined validation function", " 'x'">>)
              /\ errs = << <<"Undefined validation function", " 'x'">> >>
        /\ prog.rules \in {"bad", "fault"} =>
              /\ prog.exit # 0
              /\ ~HasPrefix(output, StdoutErrPrefix)
              /\ errs = << <<"exit status">> >>

C23_Witness ==
    /\ pc = "returned"
    /\ prog.validated
    /\ prog.rules = "bad"
    /\ prog.exit = 2
    /\ output = <<"panic: ", "Bad field type", "\n">>

-----------------------------------------------------------------------------
(* C24 *)

\* the path is the directory or lies below it
inside(path, dir) == path = dir \/ HasPrefix(path, dir \o <<Sep>>)

\* the invocation with these locals has a workspace and has not returned
atWork(l) == l.tempDir # NoDir /\ l.pc \notin Terminal

\* C24: two invocations of run that are at work at the same time have
\* workspaces of different paths, neither inside the other; and every step
\* of an invocation creates and removes paths in its own workspace only, so
\* that what the other invocation has in its workspace stays as it is.
C24_IsolatedWorkspaces ==
    /\ []((atWork([pc |-> pc, tempDir |-> tempDir]) /\ atWork(other)) =>
            /\ ~inside(tempDir, other.tempDir)
            /\ ~inside(other.tempDir, tempDir))
    /\ [][LET own == IF tempDir = NoDir THEN tempDir' ELSE tempDir IN
          /\ \A q \in (fs \ fs') \cup (fs' \ fs) : inside(q.path, own)
          /\ atWork(other) =>
                {q \in fs : inside(q.path, other.tempDir)}
                    = {q \in fs' : inside(q.path, other.tempDir)}]_vars

\* one invocation has run its program, returned and removed its workspace
\* while the other one, with its files written, is about to run its program
C24_Witness ==
    /\ pc = "returned"
    /\ log.executed
    /\ tempDir # NoDir
    /\ DirAt(tempDir) \notin fs
    /\ other.pc = "exec"
    /\ {FileAt(Join(other.tempDir, MainGo)), FileAt(Join(other.tempDir, GoMod)),
        FileAt(Join(other.tempDir, GoSum))} \subseteq fs

-----------------------------------------------------------------------------
(* C25 *)

\* every identifier that occurs in a type expression, wherever it stands
RECURSIVE allIdents(_)
allIdents(e) ==
    CASE e.k = "ident" -> {e.Name}
      [] e.k = "array" -> allIdents(e.Elt)
      [] e.k = "map" -> allIdents(e.Key) \cup allIdents(e.Value)
      [] e.k = "star" -> allIdents(e.X)
      [] e.k = "chan" -> allIdents(e.Value)
      [] e.k = "struct" -> UNION {allIdents(e.Fields[i].Type) : i \in 1..Len(e.Fields)}
      [] OTHER -> {}

\* C25: when the walk has ended without error, every identifier of a
\* rendered declaration that is no primitive, behind a pointer or in a
\* channel type also, names a declaration that is rendered too.
C25_ClosedUnderReference ==
    (pc = "synthesize" /\ errs = <<>>) =>
        \A i \in 1..Len(typeDefinitions) :
            \A n \in allIdents(typeDefinitions[i][2]) :
                \/ isTypePrimitive(n)
                \/ \E j \in 1..Len(typeDefinitions) : typeDefinitions[j][1] = n

-----------------------------------------------------------------------------
(* C26 *)

\* the references of a type expression to identifiers that are no primitive
\* and no declared type, each occurrence counted
RECURSIVE undefinedRefs(_, _)
undefinedRefs(package, e) ==
    CASE e.k = "ident" ->
           IF ~isTypePrimitive(e.Name) /\ ~declaresType(package, e.Name) THEN 1 ELSE 0
      [] e.k = "array" -> undefinedRefs(package, e.Elt)
      [] e.k = "map" -> undefinedRefs(package, e.Key) + undefinedRefs(package, e.Value)
      [] e.k = "struct" ->
           IF e.Fields = <<>> THEN 0
           ELSE undefinedRefs(package, Head(e.Fields).Type)
                + undefinedRefs(package, StructType(Tail(e.Fields)))
      [] OTHER -> 0

\* those of the declarations of a set of names, each declaration once
RECURSIVE undefinedRefsOf(_, _)
undefinedRefsOf(package, names) ==
    IF names = {} THEN 0
    ELSE LET n == CHOOSE x \in names : TRUE IN
         (IF declaresType(package, n)
          THEN undefinedRefs(package, CHOOSE d \in declsOf(package, n) : TRUE)
          ELSE 0)
         + undefinedRefsOf(package, names \ {n})

undefinedErrors(es) ==
    Cardinality({i \in 1..Len(es) : es[i] # <<>> /\ es[i][1] = "undefined type: "})

\* C26: a run that returns reports one "undefined type" error for each
\* reference of a reachable declaration to an undeclared type, also when
\* the declaration is reachable from the root by several paths.
C26_OneErrorPerReference ==
    (pc = "returned" /\ Walked /\ Cardinality(pkg.Files) = 1) =>
        undefinedErrors(errs) = undefinedRefsOf(pkg, ReachableIdents(pkg, p.TypeName))

-----------------------------------------------------------------------------
(* C27 *)

\* The input type the rule gives a path, 0 for none; lineFeeds tells whether
\* the suffix of a dotenv name may hold line feeds.
claimedFormat(filePath, lineFeeds) ==
    LET extension == ToLower(Ext(filePath))
        base == Base(filePath)
    IN
    CASE extension = <<".", "t", "o", "m", "l">> -> InputTypeTOML
      [] extension = <<".", "j", "s", "o", "n">> -> InputTypeJSON
      [] extension = <<".", "j", "s", "o", "n", "n", "e", "t">> -> InputTypeJSONNET
      [] extension = <<".", "y", "a", "m", "l">> -> InputTypeYAML
      [] extension = <<".", "y", "m", "l">> -> InputTypeYAML
      [] extension = <<".", "h", "c", "l">> -> InputTypeHCL
      [] OTHER ->
           IF \/ base = <<".", "e", "n", "v">>
              \/ /\ Len(base) > 5
                 /\ SubSeq(base, 1, 5) = <<".", "e", "n", "v", ".">>
                 /\ lineFeeds \/ \A i \in 6..Len(base) : base[i] # "\n"
           THEN InputTypeDOTENV
           ELSE 0

\* run is past getFileFormat on a file path and has the input type of the
\* rule, or has returned the one error "unsupported file type" with no
\* package parsed when the rule gives none
formatFollows(lineFeeds) ==
    (p # NoParams /\ ~p.InputEnv /\ pc # "getFileFormat") =>
        LET claimed == claimedFormat(p.InputFile, lineFeeds) IN
        IF claimed # 0
        THEN inputType = claimed
        ELSE /\ pc = "returned"
             /\ errs = << <<"unsupported file type: ">> \o Base(p.InputFile) >>
             /\ pkg = NoPackage

\* C27 as stated: the input type is the one of the lower-cased extension,
\* before the dotenv rule, else dotenv for a base name `.env` or `.env.`
\* and any non-empty suffix; every other path makes run return the one
\* error "unsupported file type" before the package is parsed.
C27_FormatOfPath == formatFollows(TRUE)

\* C27: the same with dotenv for a base name `.env` or `.env.` and a
\* non-empty suffix that holds no line feed.
C27_FormatOfPathOneLine == formatFollows(FALSE)

\* `.env.json` is taken for JSON and the run goes on to the package
C27_Witness ==
    /\ pc = "parsePackage"
    /\ p.InputFile = FileDotenvJSON
    /\ inputType = InputTypeJSON

====
